---- MODULE Spec2Model ----
(***************************************************************************)
(* Model of libdistgen's src/distgen_internal.cpp: the distance registry   *)
(* (addDist), the buffer sizing (initBufs, gcd, adjustSize), the per-thread *)
(* buffer initialisation (init_memory_per_thread) and the benchmark loop   *)
(* (runBench).                                                             *)
(*                                                                         *)
(* u64 values are modelled as naturals.  Every input set below keeps the   *)
(* values far from 2^64, and the only loop that could run up to the wrap   *)
(* (adjustSize with diff = 0) is cut off at MaxSize, so no wrap-around is  *)
(* reachable within the bounds.  assert() is modelled as compiled in: a    *)
(* failing assert stops the program (pc = "abort_...").                    *)
(***************************************************************************)
EXTENDS Integers, Sequences, FiniteSets, TLC

VARIABLES
    distSize,      \* static u64 distSize[MAXDISTCOUNT]
    distBlocks,    \* static u64 distBlocks[MAXDISTCOUNT]
    distIter,      \* static u64 distIter[MAXDISTCOUNT]
    distsUsed,     \* static int distsUsed
    acc,           \* the last addDist call: argument, outcome, indices of distSize it read and wrote
    registered,    \* history: the values addDist was called with and returned from
    tcount,        \* size_t tcount
    pseudoRandom,  \* int pseudoRandom
    blocks,        \* static u64 blocks
    blockDiff,     \* static u64 blockDiff
    pc,            \* where the main thread is: "setup", "adjust", "create", "join", "ready", or stopped
    size,          \* adjustSize's parameter `size` while the loop runs
    i,             \* loop counter of initBufs' create and join loops
    tpc,           \* per worker: "idle", "start", "fill", "chain", "done"
    tidx,          \* per worker: local idx of init_memory_per_thread
    tblk,          \* per worker: local blk of init_memory_per_thread
    buffer,        \* struct entry *buffer[]: per thread id, whether the pointer is null, and
                   \* the entries of the memory it points to
    sum,           \* the caller's *sum (in hundredths)
    aCount,        \* the caller's *aCount
    call           \* the runBench calls so far: their number, the last one's arguments and
                   \* the state it started from, and per mode the offsets its last call accessed

vars == <<distSize, distBlocks, distIter, distsUsed, acc, registered, tcount, pseudoRandom, blocks,
          blockDiff, pc, size, i, tpc, tidx, tblk, buffer, sum, aCount, call>>

regVars == <<distSize, distsUsed, acc, registered>>
cfgVars == <<tcount, pseudoRandom>>
sizeVars == <<distBlocks, distIter, blocks, blockDiff, size>>
thrVars == <<tpc, tidx, tblk>>
benchVars == <<sum, aCount, call>>

(***************************************************************************)
(* Program constants                                                       *)
(***************************************************************************)
\* distgen_internal.h: #define BLOCKLEN 64 (one cache line)
BLOCKLEN == 64
\* sizeof(struct entry), asserted by initBufs
ENTRYSIZE == 16
\* distgen_internal.h: capacity of the distance arrays
MAXDISTCOUNT == 10
\* distgen.h: capacity of the thread arrays
DISTGEN_MAXTHREADS == 255

(***************************************************************************)
(* Bounds of the model                                                     *)
(***************************************************************************)
\* registry-only specification: distances 1..MaxDist are registered
MaxDist == 11
\* sizing specification: distances k * DistUnit, k in 1..MaxK
MaxK == 8
DistUnit == 48
\* adjustSize's loop is followed while size < MaxSize
MaxSize == 80
\* worker threads of the initialisation specification: tcount in 1..MaxThreads
MaxThreads == 2
\* runBench: iteration counts 1 and MaxIter, at most MaxCalls calls
MaxIter == 2
MaxCalls == 2

\* the null pointer as an entry's next
Null == -1
\* a buffer slot that holds the null pointer
NullBuf == [null |-> TRUE, mem |-> <<>>]
\* content of memory that was never written
Uninit == -2

DistIdx == 0 .. (MAXDISTCOUNT - 1)
Threads == 0 .. (MaxThreads - 1)

\* a failed assert or a crash: the process is gone
Stopped == pc \in {"abort_capacity", "abort_alloc", "abort_link", "fault"}

\* the values an out-of-bounds read may deliver
Garbage == {0, 5}

\* doubles are modelled in fixed point: One is 1.0, BenchV is `v = 1.23`
One == 100
BenchV == 123
\* static_cast<double>(idx)
Dbl(n) == n * One

(***************************************************************************)
(* addDist                                                                 *)
(***************************************************************************)
\* acc while no addDist call is on record: before the first one, and from initBufs on,
\* when the registry is complete
NoCall == [size |-> 0, ret |-> "none", rd |-> {}, wr |-> {}]

\* the search loop: the index it stops at, and whether it returned on an equal entry
RECURSIVE Search(_, _, _, _)
SearchNoDup(arr, used, sz, d) ==
    IF d >= used THEN [d |-> d, dup |-> FALSE]
    ELSE IF arr[d] < sz THEN [d |-> d, dup |-> FALSE]
    ELSE Search(arr, used, sz, d + 1)
Search(arr, used, sz, d) ==
    IF d >= used THEN [d |-> d, dup |-> FALSE]
    ELSE IF arr[d] = sz THEN [d |-> d, dup |-> TRUE]
    ELSE IF arr[d] < sz THEN [d |-> d, dup |-> FALSE]
    ELSE Search(arr, used, sz, d + 1)

\* the indices of distSize the search loop reads
SearchReads(used, d) == {k \in 0 .. d : k < used}

\* one read of distSize[k]; k = -1 is outside the array and delivers g
ReadDist(arr, k, g) == IF k \in DistIdx THEN arr[k] ELSE g

\* the shift loop: for (dd = distsUsed; dd >= d; dd--) distSize[dd] = distSize[dd - 1]
RECURSIVE Shift(_, _, _, _)
Shift(arr, dd, d, g) ==
    IF dd < d THEN arr
    ELSE Shift([arr EXCEPT ![dd] = ReadDist(arr, dd - 1, g)], dd - 1, d, g)

ShiftReads(used, d) == {dd - 1 : dd \in d .. used}
ShiftWrites(used, d) == d .. used

\* the capacity assert
HasRoom(used) == used < MAXDISTCOUNT

\* the order of the duplicate return and the capacity assert: the return comes first
AssertFirst(r, used) == ~HasRoom(used)
AbortsOnFull(r, used) == ~r.dup /\ ~HasRoom(used)

\* addDist(sz).  The registry is filled before initBufs is called (the derived metrics
\* and the buffers are computed from it once), so calls are taken in "setup" only.
AddDist(sz) ==
    /\ pc = "setup"
    /\ \E g \in Garbage :
        LET r == Search(distSize, distsUsed, sz, 0)
            rd == SearchReads(distsUsed, r.d)
        IN  IF AbortsOnFull(r, distsUsed)
            THEN /\ pc' = "abort_capacity"
                 /\ acc' = [size |-> sz, ret |-> "abort", rd |-> rd, wr |-> {}]
                 /\ UNCHANGED <<distSize, distsUsed, registered>>
            ELSE IF r.dup
            THEN /\ acc' = [size |-> sz, ret |-> "dup", rd |-> rd, wr |-> {}]
                 /\ registered' = registered \cup {sz}
                 /\ UNCHANGED <<distSize, distsUsed, pc>>
            ELSE /\ distSize' = [Shift(distSize, distsUsed, r.d, g) EXCEPT ![r.d] = sz]
                 /\ distsUsed' = distsUsed + 1
                 /\ registered' = registered \cup {sz}
                 /\ acc' = [size |-> sz, ret |-> "inserted",
                            rd |-> rd \cup ShiftReads(distsUsed, r.d),
                            wr |-> ShiftWrites(distsUsed, r.d) \cup {r.d}]
                 /\ UNCHANGED pc
    /\ UNCHANGED <<cfgVars, sizeVars, i, thrVars, buffer, benchVars>>

(***************************************************************************)
(* initBufs up to the call of adjustSize, gcd, adjustSize                  *)
(***************************************************************************)
\* (n + BLOCKLEN - 1) / BLOCKLEN
RawBlocks(n) == (n + BLOCKLEN - 1) \div BLOCKLEN

\* blockDiff = pseudoRandom ? (blocks * 7 / 17) : 1
StrideOf(b, pr) == IF pr # 0 THEN (b * 7) \div 17 ELSE 1

RECURSIVE gcd(_, _)
gcd(a, b) == IF b = 0 THEN a ELSE gcd(b, a % b)

\* the entry of initBufs: its asserts, the per-distance metrics, the raw block count and
\* the stride, and the call of adjustSize(blocks, blockDiff).  The two `if (verbose)`
\* blocks only print, and verbose is a static that nothing in the file sets.
InitBufs ==
    /\ pc = "setup"
    /\ tcount < DISTGEN_MAXTHREADS
    /\ ENTRYSIZE = 16
    /\ distBlocks' = [d \in DistIdx |->
                        IF d < distsUsed THEN RawBlocks(distSize[d]) ELSE distBlocks[d]]
    /\ distIter' = [d \in DistIdx |->
                        IF d < distsUsed THEN distSize[0] \div distSize[d] ELSE distIter[d]]
    /\ blocks' = RawBlocks(distSize[0])
    /\ blockDiff' = StrideOf(RawBlocks(distSize[0]), pseudoRandom)
    /\ size' = RawBlocks(distSize[0])
    /\ pc' = "adjust"
    /\ acc' = NoCall
    /\ UNCHANGED <<distSize, distsUsed, registered, cfgVars, i, thrVars, buffer, benchVars>>

\* adjustSize: while (gcd(size, diff) > 1) size++;
AdjustStep ==
    /\ pc = "adjust"
    /\ gcd(size, blockDiff) > 1
    /\ size < MaxSize
    /\ size' = size + 1
    /\ UNCHANGED <<regVars, cfgVars, distBlocks, distIter, blocks, blockDiff, pc, i,
                   thrVars, buffer, benchVars>>

\* adjustSize: return size; and initBufs' blocks = adjustSize(...)
AdjustReturn ==
    /\ pc = "adjust"
    /\ ~(gcd(size, blockDiff) > 1)
    /\ blocks' = size
    /\ pc' = "create"
    /\ i' = 0
    /\ UNCHANGED <<regVars, cfgVars, distBlocks, distIter, blockDiff, size, thrVars,
                   buffer, benchVars>>

(***************************************************************************)
(* initBufs: the create loop and the join loop                             *)
(***************************************************************************)
\* pthread_create(&threads[i], ..., init_memory_per_thread, &thread_ids[i])
Create ==
    /\ pc = "create"
    /\ IF i < tcount
       THEN /\ tpc' = [tpc EXCEPT ![i] = "start"]
            /\ i' = i + 1
            /\ UNCHANGED pc
       ELSE /\ pc' = "join"
            /\ i' = 0
            /\ UNCHANGED tpc
    /\ UNCHANGED <<regVars, cfgVars, sizeVars, tidx, tblk, buffer, benchVars>>

\* pthread_join(threads[t], NULL) returns once thread t has ended
JoinableNoWait(t) == TRUE
Joinable(t) == tpc[t] = "done"

Join ==
    /\ pc = "join"
    /\ IF i < tcount
       THEN /\ Joinable(i)
            /\ i' = i + 1
            /\ UNCHANGED pc
       ELSE /\ pc' = "ready"
            /\ UNCHANGED i
    /\ UNCHANGED <<regVars, cfgVars, sizeVars, thrVars, buffer, benchVars>>

(***************************************************************************)
(* init_memory_per_thread, one step at a time                              *)
(***************************************************************************)
\* size_t tid = *static_cast<size_t *>(arg), arg = &thread_ids[t], thread_ids[t] = t
WorkerTidShared(t) == 0
WorkerTid(t) == t

\* u64 idxMax = blocks * BLOCKLEN / sizeof(entry)
IdxMax == (blocks * BLOCKLEN) \div ENTRYSIZE
\* u64 idxIncr = blockDiff * BLOCKLEN / sizeof(entry)
IdxIncrUnscaled == blockDiff
IdxIncr == (blockDiff * BLOCKLEN) \div ENTRYSIZE

\* nextIdx = idx + idxIncr; if (nextIdx >= idxMax) nextIdx -= idxMax;
NextIdx(idx) == IF idx + IdxIncr >= IdxMax THEN idx + IdxIncr - IdxMax ELSE idx + IdxIncr

Running(t) == ~Stopped /\ t \in Threads

\* posix_memalign succeeds: buffer[tid] points to blocks * BLOCKLEN unwritten bytes
Alloc(t) ==
    /\ Running(t)
    /\ tpc[t] = "start"
    /\ buffer' = [buffer EXCEPT ![WorkerTid(t)] =
                    [null |-> FALSE,
                     mem |-> [k \in 0 .. (IdxMax - 1) |-> [v |-> Uninit, next |-> Uninit]]]]
    /\ tidx' = [tidx EXCEPT ![t] = 0]
    /\ tpc' = [tpc EXCEPT ![t] = "fill"]
    /\ UNCHANGED <<regVars, cfgVars, sizeVars, pc, i, tblk, benchVars>>

\* posix_memalign fails: assert(err == 0) stops the process
AllocFail(t) ==
    /\ Running(t)
    /\ tpc[t] = "start"
    /\ pc' = "abort_alloc"
    /\ UNCHANGED <<regVars, cfgVars, sizeVars, i, thrVars, buffer, benchVars>>

\* for (idx = 0; idx < idxMax; idx++) { buf[idx].v = idx; buf[idx].next = 0; }
\* and, after it, idx = 0 and blk = 0 of the chain loop
Fill(t) ==
    /\ Running(t)
    /\ tpc[t] = "fill"
    /\ IF tidx[t] < IdxMax
       THEN /\ buffer' = [buffer EXCEPT ![WorkerTid(t)].mem[tidx[t]] =
                            [v |-> Dbl(tidx[t]), next |-> Null]]
            /\ tidx' = [tidx EXCEPT ![t] = tidx[t] + 1]
            /\ UNCHANGED <<tpc, tblk>>
       ELSE /\ tidx' = [tidx EXCEPT ![t] = 0]
            /\ tblk' = [tblk EXCEPT ![t] = 0]
            /\ tpc' = [tpc EXCEPT ![t] = "chain"]
            /\ UNCHANGED buffer
    /\ UNCHANGED <<regVars, cfgVars, sizeVars, pc, i, benchVars>>

\* for (blk = 0; blk < blocks; blk++) { nextIdx = ...; assert(buf[idx].next == 0);
\*   buf[idx].next = buf + nextIdx; idx = nextIdx; }   and the return after it
Chain(t) ==
    /\ Running(t)
    /\ tpc[t] = "chain"
    /\ LET buf == buffer[WorkerTid(t)].mem
           idx == tidx[t]
       IN  IF tblk[t] >= blocks
           THEN /\ tpc' = [tpc EXCEPT ![t] = "done"]
                /\ UNCHANGED <<pc, buffer, tidx, tblk>>
           ELSE IF idx \notin DOMAIN buf
           THEN /\ pc' = "fault"
                /\ UNCHANGED <<buffer, thrVars>>
           ELSE IF buf[idx].next # Null
           THEN /\ pc' = "abort_link"
                /\ UNCHANGED <<buffer, thrVars>>
           ELSE /\ buffer' = [buffer EXCEPT ![WorkerTid(t)].mem[idx].next = NextIdx(idx)]
                /\ tidx' = [tidx EXCEPT ![t] = NextIdx(idx)]
                /\ tblk' = [tblk EXCEPT ![t] = tblk[t] + 1]
                /\ UNCHANGED <<pc, tpc>>
    /\ UNCHANGED <<regVars, cfgVars, sizeVars, i, benchVars>>

(***************************************************************************)
(* runBench                                                                *)
(***************************************************************************)
\* int benchType = depChain + 2 * doWrite
BenchType(dc, dw) == dc + 2 * dw

\* sequential modes: idx += idxIncr; if (idx >= idxMax) idx -= idxMax;
SeqNextNoWrap(idx) == idx + IdxIncr
SeqNext(idx) == IF idx + IdxIncr >= IdxMax THEN idx + IdxIncr - IdxMax ELSE idx + IdxIncr

\* chain modes: p = p->next (a p outside the buffer yields no usable pointer)
ChainNext(mem, p) == IF p \in DOMAIN mem THEN mem[p].next ELSE Null

\* the step from one access to the next in mode bt
Advance(mem, pos, bt) == IF bt \in {0, 2} THEN SeqNext(pos) ELSE ChainNext(mem, pos)

\* lsum += buffer[pos].v, for the read at the top of an iteration and of a distance; an
\* access outside the buffer is undefined behaviour and is recorded in oob
Prime(st, pos) ==
    IF pos \in DOMAIN st.mem
    THEN [st EXCEPT !.sum = @ + st.mem[pos].v]
    ELSE [st EXCEPT !.oob = TRUE]

\* the body of the inner loop at offset pos in mode bt:
\*   0, 1: lsum += v          2: v += 1.0; lsum += v          3: v += 1.0; lsum += v; v = 1.23
AccessWritesAlways(st, pos, bt) ==
    [st EXCEPT !.mem[pos].v = @ + One, !.sum = @ + st.mem[pos].v + One]
Access(st, pos, bt) ==
    IF pos \notin DOMAIN st.mem
    THEN [st EXCEPT !.oob = TRUE]
    ELSE IF bt \in {0, 1}
    THEN [st EXCEPT !.sum = @ + st.mem[pos].v]
    ELSE IF bt = 2
    THEN [st EXCEPT !.mem[pos].v = @ + One, !.sum = @ + st.mem[pos].v + One]
    ELSE [st EXCEPT !.mem[pos].v = BenchV, !.sum = @ + st.mem[pos].v + One]

\* always true; TLC computes st in full to decide it, so that the loops below are
\* evaluated step by step instead of as one nested expression
Evaluated(st) == st.oob \in BOOLEAN /\ st.sum = st.sum /\ st.mem = st.mem

\* for (j = 0; j < max; j++) { access; advance }: one traversal from offset pos on;
\* trail collects the offsets accessed
RECURSIVE Traverse(_, _, _, _, _)
Traverse(st, pos, j, max, bt) ==
    IF j >= max THEN st
    ELSE LET s1 == [Access(st, pos, bt) EXCEPT !.trail = Append(@, pos)]
             p1 == Advance(st.mem, pos, bt)
         IN  IF Evaluated(s1) /\ p1 = p1
             THEN Traverse(s1, p1, j + 1, max, bt)
             ELSE s1

\* *aCount += distBlocks[d], at the top of every traversal
CountPerStep(d) == 1
CountPerTraversal(d) == distBlocks[d]

\* for (k = 0; k < distIter[d]; k++) { *aCount += distBlocks[d]; max = distBlocks[d]; switch ... }
RECURSIVE Traversals(_, _, _, _)
Traversals(st, d, k, bt) ==
    IF k >= distIter[d] THEN st
    ELSE LET t0 == [st EXCEPT !.cnt = @ + CountPerTraversal(d), !.trail = <<>>]
             t1 == Traverse(t0, 0, 0, distBlocks[d], bt)
             t2 == [t1 EXCEPT !.offs[d] = @ \cup {t1.trail}]
         IN  IF Evaluated(t2) THEN Traversals(t2, d, k + 1, bt) ELSE t2

\* for (d = 0; d < distsUsed; d++) { lsum += buffer[0].v; ... }
RECURSIVE Distances(_, _, _)
Distances(st, d, bt) ==
    IF d >= distsUsed THEN st
    ELSE LET s1 == Traversals(Prime(st, 0), d, 0, bt)
         IN  IF Evaluated(s1) THEN Distances(s1, d + 1, bt) ELSE s1

\* for (size_t i = 0; i < iter; i++) { lsum += buffer[0].v; ... }
RECURSIVE Iterations(_, _, _, _)
Iterations(st, it, n, bt) ==
    IF it >= n THEN st
    ELSE LET s1 == Distances(Prime(st, 0), 0, bt)
         IN  IF Evaluated(s1) THEN Iterations(s1, it + 1, n, bt) ELSE s1

NoOffsets == [d \in DistIdx |-> {}]

\* runBench(buffer[t], n, dc, dw, &sum, &aCount).  A call that accessed memory outside
\* the buffer has undefined behaviour: it crashes, or it returns with any sum.
RunBench(t, n, dc, dw) ==
    /\ pc = "ready"
    /\ t < tcount
    /\ call.calls < MaxCalls
    /\ LET bt == BenchType(dc, dw)
           st == Iterations([mem |-> buffer[t].mem, sum |-> sum, cnt |-> aCount,
                             offs |-> NoOffsets, trail |-> <<>>, oob |-> FALSE],
                            0, n, bt)
       IN  \E crash \in (IF st.oob THEN BOOLEAN ELSE {FALSE}),
              res \in (IF st.oob THEN Garbage ELSE {st.sum}) :
            IF crash
            THEN /\ pc' = "fault"
                 /\ UNCHANGED <<buffer, sum, aCount, call>>
            ELSE /\ buffer' = [buffer EXCEPT ![t].mem = st.mem]
                 /\ sum' = res
                 /\ aCount' = st.cnt
                 /\ call' = [calls |-> call.calls + 1, t |-> t, n |-> n,
                             depChain |-> dc, doWrite |-> dw,
                             pre |-> [mem |-> buffer[t].mem, sum |-> sum, aCount |-> aCount],
                             ran |-> call.ran \cup {bt},
                             seen |-> [call.seen EXCEPT ![bt] = st.offs]]
                 /\ UNCHANGED pc
    /\ UNCHANGED <<regVars, cfgVars, sizeVars, i, thrVars>>

(***************************************************************************)
(* Initial state: the statics as the loader zeroes them                    *)
(***************************************************************************)
InitWith(tc, pr) ==
    /\ distSize = [k \in DistIdx |-> 0]
    /\ distBlocks = [k \in DistIdx |-> 0]
    /\ distIter = [k \in DistIdx |-> 0]
    /\ distsUsed = 0
    /\ acc = NoCall
    /\ registered = {}
    /\ tcount = tc
    /\ pseudoRandom = pr
    /\ blocks = 0
    /\ blockDiff = 0
    /\ pc = "setup"
    /\ size = 0
    /\ i = 0
    /\ tpc = [t \in Threads |-> "idle"]
    /\ tidx = [t \in Threads |-> 0]
    /\ tblk = [t \in Threads |-> 0]
    /\ buffer = [t \in Threads |-> NullBuf]
    /\ sum = 0
    /\ aCount = 0
    /\ call = [calls |-> 0, t |-> 0, n |-> 0, depChain |-> 0, doWrite |-> 0,
               pre |-> [mem |-> <<>>, sum |-> 0, aCount |-> 0],
               ran |-> {}, seen |-> [bt \in 0 .. 3 |-> NoOffsets]]

(***************************************************************************)
(* The registry alone: any sequence of addDist calls                       *)
(***************************************************************************)
InitReg == InitWith(1, 0)
NextReg == \E v \in 1 .. MaxDist : AddDist(v)
SpecReg == InitReg /\ [][NextReg]_vars

Stored == {distSize[k] : k \in 0 .. (distsUsed - 1)}
MaxOf(S) == CHOOSE m \in S : \A x \in S : x <= m

\* C5: after any sequence of addDist calls that stays within the capacity, the stored
\* distances distSize[0..distsUsed-1] are strictly descending (so without duplicates),
\* they are the values registered, and distSize[0] is the largest value registered.
C5_StrictlyDescending ==
    pc # "abort_capacity" =>
        /\ \A k \in 0 .. (distsUsed - 2) : distSize[k] > distSize[k + 1]
        /\ Stored = registered
        /\ registered # {} => distSize[0] = MaxOf(registered)

\* an insertion in the middle of a registry of at least three values has happened
C5_Witness ==
    /\ acc.ret = "inserted"
    /\ distsUsed >= 4
    /\ 0 \notin acc.wr
    /\ Cardinality(acc.wr) >= 2

\* C6: an addDist call with a value that is already stored changes neither distsUsed
\* nor distSize and does not abort, also when the registry is full.
C6_DuplicateIsNoOp ==
    [][(acc'.size \in Stored)
         => (distSize' = distSize /\ distsUsed' = distsUsed /\ pc' = pc
             /\ acc'.ret = "dup")]_vars

\* a duplicate was registered while the registry was full
C6_Witness == acc.ret = "dup" /\ distsUsed = MAXDISTCOUNT

\* C10: every index addDist uses on distSize, reading or writing, is in
\* [0, MAXDISTCOUNT).
C10_IndicesInBounds == (acc.rd \cup acc.wr) \subseteq DistIdx

(***************************************************************************)
(* Sizing: registry, then initBufs up to the return of adjustSize          *)
(***************************************************************************)
SizeDists == {k * DistUnit : k \in 1 .. MaxK}
InitSize == \E pr \in {0, 1} : InitWith(1, pr)
NextSize ==
    \/ \E v \in SizeDists : AddDist(v)
    \/ InitBufs
    \/ AdjustStep
    \/ AdjustReturn
SpecSize == InitSize /\ [][NextSize]_vars

\* adjustSize has returned to initBufs
Sized == pc \in {"create", "join", "ready"}

\* C1: the block count B that adjustSize returns for the raw block count B0 and the
\* stride S of initBufs satisfies gcd(B, S) = 1 and B >= B0.
C1_CoprimeAndNotSmaller ==
    Sized => /\ gcd(blocks, blockDiff) = 1
             /\ blocks >= RawBlocks(distSize[0])

\* C2: for every raw block count B0 >= 1 and both stride policies, adjustSize's loop
\* ends within the bound the claim gives: size never passes B0 + S while the loop
\* runs, and the block count returned is at most B0 + S.
C2_LoopBounded ==
    distsUsed >= 1 =>
        /\ pc = "adjust" => size <= blocks + blockDiff
        /\ Sized => blocks <= RawBlocks(distSize[0]) + blockDiff

(***************************************************************************)
(* Initialisation: initBufs with its worker threads, interleaved           *)
(***************************************************************************)
InitDists == {144, 384}
InitInit == \E tc \in 1 .. MaxThreads, pr \in {0, 1} : InitWith(tc, pr)
NextInit ==
    \/ \E v \in InitDists : AddDist(v)
    \/ InitBufs
    \/ AdjustStep
    \/ AdjustReturn
    \/ Create
    \/ Join
    \/ \E t \in Threads : Alloc(t)
    \/ \E t \in Threads : AllocFail(t)
    \/ \E t \in Threads : Fill(t)
    \/ \E t \in Threads : Chain(t)
SpecInit == InitInit /\ [][NextInit]_vars

\* the units at which a block starts
BlockStarts == {b * (BLOCKLEN \div ENTRYSIZE) : b \in 0 .. (blocks - 1)}

\* the offset reached from offset k by following next n times
RECURSIVE Follow(_, _, _)
Follow(buf, k, n) == IF n = 0 THEN k ELSE Follow(buf, buf[k].next, n - 1)

\* every unit of the buffer carries its index as payload, the block starts are linked
\* and no other unit is
Populated(b) ==
    LET buf == b.mem IN
    /\ ~b.null
    /\ DOMAIN buf = 0 .. (IdxMax - 1)
    /\ \A k \in DOMAIN buf : buf[k].v = Dbl(k)
    /\ \A k \in DOMAIN buf : k \in BlockStarts <=> buf[k].next # Null
    /\ \A k \in DOMAIN buf : k \notin BlockStarts => buf[k].next = Null
    /\ \A k \in BlockStarts : buf[k].next \in BlockStarts

\* C3: for coprime (blocks, blockDiff) the chain loop never finds a unit linked already
\* (its assert does not fire), links every block start and no other unit, and the links
\* are one cycle: from offset 0 the chain is back at 0 after exactly `blocks` steps, not
\* earlier, and passes every block start on the way.
C3_SingleCycle ==
    gcd(blocks, blockDiff) = 1 =>
        /\ pc # "abort_link"
        /\ pc # "fault"
        /\ \A t \in Threads : tpc[t] = "done" =>
              LET buf == buffer[t].mem IN
              /\ Populated(buffer[t])
              /\ blocks > 0 => Follow(buf, 0, blocks) = 0
              /\ \A n \in 1 .. (blocks - 1) : Follow(buf, 0, n) # 0
              /\ {Follow(buf, 0, n) : n \in 0 .. (blocks - 1)} = BlockStarts

\* a worker has finished a chain whose stride wraps around the buffer
C3_Witness ==
    /\ gcd(blocks, blockDiff) = 1
    /\ blocks >= 7
    /\ blockDiff >= 2
    /\ \E t \in Threads : tpc[t] = "done"

\* the step was taken by worker t: its position or its locals changed, no other's did
StepOf(t) ==
    /\ <<tpc[t], tidx[t], tblk[t]>>' # <<tpc[t], tidx[t], tblk[t]>>
    /\ \A u \in Threads \ {t} : <<tpc[u], tidx[u], tblk[u]>>' = <<tpc[u], tidx[u], tblk[u]>>
    /\ pc' = pc

\* C9: in every interleaving, when initBufs returns every worker has finished and each
\* buffer[tid], tid < tcount, is allocated, carries the payloads and is fully linked;
\* and a buffer slot or a buffer's memory is written by the worker of that id only.
C9_JoinBarrier ==
    /\ [](pc = "ready" =>
            \A t \in Threads : t < tcount => (tpc[t] = "done" /\ Populated(buffer[t])))
    /\ [][\A t \in Threads : buffer'[t] # buffer[t] => StepOf(t)]_vars

\* initBufs has returned with two workers' buffers
C9_Witness == pc = "ready" /\ tcount >= 2 /\ blocks >= 6

(***************************************************************************)
(* Benchmark: one thread's buffer is initialised, then runBench is called  *)
(***************************************************************************)
BenchDists == {4096, 1024}
InitBench == \E pr \in {0, 1} : InitWith(1, pr)
NextBench ==
    \/ \E v \in BenchDists : AddDist(v)
    \/ InitBufs
    \/ AdjustStep
    \/ AdjustReturn
    \/ Create
    \/ Join
    \/ \E t \in Threads : Alloc(t)
    \/ \E t \in Threads : AllocFail(t)
    \/ \E t \in Threads : Fill(t)
    \/ \E t \in Threads : Chain(t)
    \/ \E t \in Threads, n \in {1, MaxIter}, dc \in {0, 1}, dw \in {0, 1} : RunBench(t, n, dc, dw)
SpecBench == InitBench /\ [][NextBench]_vars

\* a runBench call has returned
Benched == pc = "ready" /\ call.calls > 0

\* C4: on an initialised buffer, a sequential read-only call (benchType 0) and a chain
\* read-only call (benchType 1) access the same offsets: for every registered distance
\* d every traversal of either mode accesses the same distBlocks[d] offsets, in the same
\* order.
C4_SameOffsets ==
    (Benched /\ {0, 1} \subseteq call.ran) =>
        \A d \in 0 .. (distsUsed - 1) :
            /\ call.seen[0][d] = call.seen[1][d]
            /\ Cardinality(call.seen[0][d]) = 1
            /\ \A tr \in call.seen[0][d] : Len(tr) = distBlocks[d]
            /\ \A t0 \in call.seen[0][d], t1 \in call.seen[1][d] :
                 {t0[k] : k \in 1 .. Len(t0)} = {t1[k] : k \in 1 .. Len(t1)}

\* both read-only modes have run over a buffer with a wrapping stride and two distances
C4_Witness ==
    /\ Benched
    /\ {0, 1} \subseteq call.ran
    /\ pseudoRandom = 1
    /\ distsUsed = 2

CeilDiv(a, b) == IF a % b = 0 THEN a \div b ELSE (a \div b) + 1

RECURSIVE PerIteration(_)
PerIteration(d) ==
    IF d >= distsUsed THEN 0
    ELSE (distSize[0] \div distSize[d]) * CeilDiv(distSize[d], BLOCKLEN) + PerIteration(d + 1)

\* C7: a runBench call with iteration count n adds to *aCount exactly n times the sum
\* over the registered distances d of floor(distSize[0] / distSize[d]) *
\* ceil(distSize[d] / BLOCKLEN), in every mode; with the distances 4096 and 1024 that is
\* 128 per iteration.
C7_AccessCount ==
    Benched =>
        /\ aCount = call.pre.aCount + call.n * PerIteration(0)
        /\ registered = {4096, 1024} => aCount = call.pre.aCount + call.n * 128

\* a call in the chain-write mode with more than one iteration over 4096 and 1024
C7_Witness ==
    /\ Benched
    /\ registered = {4096, 1024}
    /\ call.n >= 2
    /\ call.depChain = 1
    /\ call.doWrite = 1
    /\ aCount > call.pre.aCount

\* C8: a runBench call with doWrite = 0 leaves every unit's payload and link as they
\* were before the call.
C8_ReadOnlyFrame ==
    (Benched /\ call.doWrite = 0) => buffer[call.t].mem = call.pre.mem

\* a read-only call of more than one iteration over two distances has returned, on a
\* buffer that an earlier write call changed
C8_Witness ==
    /\ Benched
    /\ call.doWrite = 0
    /\ call.n >= 2
    /\ distsUsed = 2
    /\ \E k \in DOMAIN buffer[call.t].mem : buffer[call.t].mem[k].v # Dbl(k)

====
